---- MODULE Spec2Model ----
(***************************************************************************)
(* Model of the intersection simulation of src/intersection.c: the         *)
(* orchestrator (main), the arrival feed (supply_arrivals), the nine lane  *)
(* controllers (manage_light) and the quiescence detector                  *)
(* (all_cars_handled), as threads interleaved at the level of their        *)
(* operations on shared state (semaphores, mutexes, mutex_lock,            *)
(* curr_arrivals, stdout).                                                 *)
(***************************************************************************)
EXTENDS Integers, Sequences, FiniteSets, TLC

(***************************************************************************)
(* Bounds of the model.                                                    *)
(***************************************************************************)
\* longest arrival dataset drawn in Init
MaxArrivals == 2
\* the second at which the clock of the timed specification stops
MaxTime == 20

(***************************************************************************)
(* Program constants.                                                      *)
(***************************************************************************)
NORTH == 0
EAST == 1
SOUTH == 2
WEST == 3
LEFT == 0
STRAIGHT == 1
RIGHT == 2
CROSS_TIME == 5
\* sizeof(mutexes)/sizeof(mutexes[0])
NumMutexes == 9
\* upper limit of the loops that init and destroy the mutexes (i < 8)
NumMutexInit == 8
\* pthread_t light_threads[8]
NumHandleSlots == 8
\* sizeof(lights)/sizeof(lights[0])
NumLights == 9
\* results of pthread_mutex_trylock as manage_light records them
NotRelevant == -2
Locked0 == 0
EBUSY == 16
EINVAL == 22

Sides == {NORTH, EAST, SOUTH, WEST}
Directions == {LEFT, STRAIGHT, RIGHT}
\* a lane is addressed as semaphores[side][direction]
LaneKeys == Sides \X Directions

lights ==
  << [side |-> NORTH, direction |-> RIGHT,    m |-> <<1, 0, 0, 0>>],
     [side |-> NORTH, direction |-> STRAIGHT, m |-> <<2, 8, 9, 0>>],
     [side |-> EAST,  direction |-> RIGHT,    m |-> <<3, 0, 0, 0>>],
     [side |-> EAST,  direction |-> STRAIGHT, m |-> <<1, 2, 4, 0>>],
     [side |-> EAST,  direction |-> LEFT,     m |-> <<5, 7, 9, 0>>],
     [side |-> SOUTH, direction |-> STRAIGHT, m |-> <<3, 4, 5, 0>>],
     [side |-> SOUTH, direction |-> LEFT,     m |-> <<1, 2, 6, 7>>],
     [side |-> WEST,  direction |-> RIGHT,    m |-> <<9, 0, 0, 0>>],
     [side |-> WEST,  direction |-> LEFT,     m |-> <<3, 4, 6, 8>> ] >>

\* light_index values, 0-based as in the source
LightIdx == 0 .. (NumLights - 1)
Light(l) == lights[l + 1]
Lanes == [l \in LightIdx |-> <<lights[l + 1].side, lights[l + 1].direction>>]
Lane(l) == Lanes[l]
\* the non-zero segment ids of row l
Paths == [l \in LightIdx |-> {lights[l + 1].m[k] : k \in 1..4} \ {0}]
Path(l) == Paths[l]
Populated == {Lane(l) : l \in LightIdx}

\* thread ids used as lock owners
Free == -1
MainTid == NumLights
\* a light_threads slot that has not been written, and a value that is no
\* lane controller's handle
NoHandle == -1
Garbage == -2

\* const Arrival input_arrivals[]
input_arrivals ==
  << [id |-> 0, side |-> NORTH, direction |-> STRAIGHT, time |-> 0],
     [id |-> 1, side |-> SOUTH, direction |-> LEFT,     time |-> 1],
     [id |-> 2, side |-> EAST,  direction |-> STRAIGHT, time |-> 7],
     [id |-> 3, side |-> WEST,  direction |-> RIGHT,    time |-> 13] >>

\* an element of the zero-filled static array curr_arrivals
ZeroArrival == [id |-> 0, side |-> NORTH, direction |-> LEFT, time |-> 0]

\* lanes the drawn datasets send cars to: two lanes of the built-in dataset
\* that share segment 2, one that shares segment 9 with the first and is
\* disjoint from the second, and one lane that has no row in lights
FeedLanes ==
  { <<NORTH, STRAIGHT>>, <<SOUTH, LEFT>>, <<WEST, RIGHT>>, <<NORTH, LEFT>> }

\* the arrival datasets Init draws from: ids are positions, times are
\* non-decreasing
MkArrival(i, k) == [id |-> i - 1, side |-> k[1], direction |-> k[2], time |-> i - 1]
Datasets ==
  UNION { { [i \in 1..n |-> MkArrival(i, ks[i])] : ks \in [1..n -> FeedLanes] }
          : n \in 1..MaxArrivals }

VARIABLES
  dataset,          \* input_arrivals of this run
  curr_arrivals,    \* curr_arrivals[side][direction][..], the written prefix
  semaphores,       \* semaphores[side][direction], the counts
  sem_live,         \* lanes whose semaphore is sem_init'ed and not destroyed
  mutexes,          \* mutexes[1..9], the owner of each (Free when unlocked)
  mutex_live,       \* segment ids whose mutex is pthread_mutex_init'ed
  mutex_lock,       \* owner of mutex_lock
  light_threads,    \* light_threads[0..7]
  oob_handle,       \* what lies at &light_threads[8], outside the array
  mpc,              \* main: position
  mi,               \* main: loop index (i, or i*3+j in all_cars_handled)
  fpc,              \* supply_arrivals: position
  fi,               \* supply_arrivals: i
  num_curr_arrivals,\* supply_arrivals: num_curr_arrivals[side][direction]
  pc,               \* manage_light: position, per light_index
  mr,               \* manage_light: m1r..m4r
  cars_passed,      \* manage_light: cars_passed
  cancel_req,       \* lane controllers with a pending pthread_cancel
  obs,              \* lines written to stdout by print_traffic_light_change
  now,              \* get_time_passed()
  zero_mutex_ok     \* whether a zero-filled static pthread_mutex_t acts as
                    \* an initialised one on this build

shared == <<curr_arrivals, semaphores, sem_live, mutexes, mutex_live, mutex_lock>>
mainv == <<light_threads, oob_handle, mpc, mi>>
feedv == <<fpc, fi, num_curr_arrivals>>
lightv == <<pc, mr, cars_passed, cancel_req>>
env == <<dataset, zero_mutex_ok>>
vars == <<env, shared, mainv, feedv, lightv, obs, now>>

(***************************************************************************)
(* Helpers.                                                                *)
(***************************************************************************)
KeyOf(a) == <<a.side, a.direction>>

\* a store that always writes slot 0
StoreAt_Front(seq, n, a) == <<a>>

\* curr_arrivals[side][direction][n] = arrival
StoreAt(seq, n, a) ==
  [j \in 1 .. (IF n + 1 > Len(seq) THEN n + 1 ELSE Len(seq)) |->
     IF j = n + 1 THEN a ELSE IF j <= Len(seq) THEN seq[j] ELSE ZeroArrival]

\* a read of the slot after the one asked for
ReadAt_Next(seq, n) == IF n + 1 < Len(seq) THEN seq[n + 2] ELSE ZeroArrival

\* curr_arrivals[side][direction][n]
ReadAt(seq, n) == IF n < Len(seq) THEN seq[n + 1] ELSE ZeroArrival

\* a trylock that does not look at the holder
TryLockResult_Blind(mx, s) ==
  IF s \notin mutex_live /\ ~zero_mutex_ok THEN EINVAL ELSE Locked0

\* pthread_mutex_trylock(&mutexes[s-1]) with the mutexes as in mx: 0 and the
\* mutex is taken, EBUSY when it is held, EINVAL when the object is no valid
\* mutex
TryLockResult(mx, s) ==
  IF s \notin mutex_live /\ ~zero_mutex_ok THEN EINVAL
  ELSE IF mx[s] # Free THEN EBUSY
  ELSE Locked0

\* print_traffic_light_change(side, direction, green, time, for_car)
print_traffic_light_change(side, direction, green, time, for_car) ==
  IF green
  THEN [side |-> side, direction |-> direction, green |-> TRUE,
        time |-> time, car |-> for_car]
  ELSE [side |-> side, direction |-> direction, green |-> FALSE,
        time |-> time, car |-> -1]

(***************************************************************************)
(* Initial state: the statics of intersection.c before main runs.          *)
(***************************************************************************)
Statics ==
  /\ curr_arrivals = [k \in LaneKeys |-> <<>>]
  /\ semaphores = [k \in LaneKeys |-> 0]
  /\ sem_live = {}
  /\ mutexes = [s \in 1..NumMutexes |-> Free]
  /\ mutex_live = {}
  /\ mutex_lock = Free
  /\ light_threads = [i \in 0 .. (NumHandleSlots - 1) |-> NoHandle]
  /\ oob_handle = Garbage
  /\ mpc = "sem_init"
  /\ mi = 0
  /\ fpc = "unborn"
  /\ fi = 0
  /\ num_curr_arrivals = [k \in LaneKeys |-> 0]
  /\ pc = [l \in LightIdx |-> "unborn"]
  /\ mr = [l \in LightIdx |-> <<NotRelevant, NotRelevant, NotRelevant, NotRelevant>>]
  /\ cars_passed = [l \in LightIdx |-> 0]
  /\ cancel_req = {}
  /\ obs = <<>>
  /\ now = 0

\* a build whose C library takes the zero-filled mutexes[8] for an
\* initialised mutex
Init == dataset \in Datasets /\ zero_mutex_ok = TRUE /\ Statics

\* any build: using mutexes[8] without pthread_mutex_init is undefined, and
\* a C library may also refuse it with EINVAL
InitAnyBuild == dataset \in Datasets /\ zero_mutex_ok \in BOOLEAN /\ Statics

(***************************************************************************)
(* main                                                                    *)
(***************************************************************************)
\* sem_init(&semaphores[i][j], 0, 0) for all i, j
main_sem_init ==
  /\ mpc = "sem_init"
  /\ semaphores' = [k \in LaneKeys |-> 0]
  /\ sem_live' = LaneKeys
  /\ mpc' = "mutex_init"
  /\ UNCHANGED <<env, curr_arrivals, mutexes, mutex_live, mutex_lock,
                 light_threads, oob_handle, mi, feedv, lightv, obs, now>>

\* for (i = 0; i < 8; ++i) pthread_mutex_init(&mutexes[i], NULL)
main_mutex_init ==
  /\ mpc = "mutex_init"
  /\ mutex_live' = 1 .. NumMutexInit
  /\ mutexes' = [s \in 1..NumMutexes |-> IF s <= NumMutexInit THEN Free ELSE mutexes[s]]
  /\ mpc' = "create"
  /\ mi' = 0
  /\ UNCHANGED <<env, curr_arrivals, semaphores, sem_live, mutex_lock,
                 light_threads, oob_handle, feedv, lightv, obs, now>>

\* pthread_create(&light_threads[i], NULL, manage_light, (void*)i)
main_create_light ==
  /\ mpc = "create"
  /\ mi < NumLights
  /\ pc' = [pc EXCEPT ![mi] = "sem_wait"]
  /\ IF mi < NumHandleSlots
     THEN /\ light_threads' = [light_threads EXCEPT ![mi] = mi]
          /\ UNCHANGED oob_handle
     ELSE /\ oob_handle' = mi
          /\ UNCHANGED light_threads
  /\ mi' = mi + 1
  /\ mpc' = IF mi + 1 < NumLights THEN "create" ELSE "create_feed"
  /\ UNCHANGED <<env, shared, feedv, mr, cars_passed, cancel_req, obs, now>>

\* start_time(); pthread_create(&arrival_thread, NULL, supply_arrivals, NULL):
\* the word past the end of light_threads may be the one arrival_thread or
\* another local of main occupies
main_create_feed ==
  /\ mpc = "create_feed"
  /\ fpc' = "store"
  /\ fi' = 0
  /\ num_curr_arrivals' = [k \in LaneKeys |-> 0]
  /\ now' = 0
  /\ oob_handle' \in {oob_handle, Garbage}
  /\ mpc' = "join"
  /\ UNCHANGED <<env, shared, light_threads, mi, lightv, obs>>

\* pthread_join(arrival_thread, NULL)
main_join ==
  /\ mpc = "join"
  /\ fpc = "done"
  /\ mpc' = "scan"
  /\ mi' = 0
  /\ UNCHANGED <<env, shared, light_threads, oob_handle, feedv, lightv, obs, now>>

(***************************************************************************)
(* all_cars_handled, called from main's while loop                         *)
(***************************************************************************)
\* a scan that looks only at the semaphores of lanes that have a row in
\* lights
all_cars_handled_sem_rows ==
  /\ mpc = "scan"
  /\ LET key == <<mi \div 3, mi % 3>> IN
       IF key \in {<<lights[r].side, lights[r].direction>> : r \in 1..NumLights}
          /\ semaphores[key] > 0
       THEN /\ mpc' = "sleep"
            /\ UNCHANGED mi
       ELSE IF mi + 1 < 12
            THEN /\ mi' = mi + 1
                 /\ UNCHANGED mpc
            ELSE /\ mpc' = "acquire"
                 /\ UNCHANGED mi
  /\ UNCHANGED <<env, shared, light_threads, oob_handle, feedv, lightv, obs, now>>

\* sem_getvalue(&semaphores[i][j], &sem_value); if (sem_value > 0) return false
all_cars_handled_sem ==
  /\ mpc = "scan"
  /\ LET key == <<mi \div 3, mi % 3>> IN
       IF semaphores[key] > 0
       THEN /\ mpc' = "sleep"
            /\ UNCHANGED mi
       ELSE IF mi + 1 < 12
            THEN /\ mi' = mi + 1
                 /\ UNCHANGED mpc
            ELSE /\ mpc' = "acquire"
                 /\ UNCHANGED mi
  /\ UNCHANGED <<env, shared, light_threads, oob_handle, feedv, lightv, obs, now>>

\* pthread_mutex_lock(&mutex_lock)
all_cars_handled_lock ==
  /\ mpc = "acquire"
  /\ mutex_lock = Free
  /\ mutex_lock' = MainTid
  /\ mpc' = "probe"
  /\ mi' = 0
  /\ UNCHANGED <<env, curr_arrivals, semaphores, sem_live, mutexes, mutex_live,
                 light_threads, oob_handle, feedv, lightv, obs, now>>

\* lines 144-164: for each i, result = pthread_mutex_trylock(&mutexes[i]);
\* on 0 unlock it again and go on, otherwise leave the loop to unlock
\* mutex_lock and return false
all_cars_handled_probe ==
  /\ mpc = "probe"
  /\ mpc' = IF \A s \in 1..NumMutexes : TryLockResult(mutexes, s) = Locked0
            THEN "unlock_true" ELSE "unlock_false"
  /\ UNCHANGED <<env, shared, light_threads, oob_handle, mi, feedv, lightv, obs, now>>

\* pthread_mutex_unlock(&mutex_lock) before return true / return false
all_cars_handled_unlock ==
  /\ mpc \in {"unlock_true", "unlock_false"}
  /\ mutex_lock' = Free
  /\ mpc' = IF mpc = "unlock_true" THEN "ret_true" ELSE "sleep"
  /\ UNCHANGED <<env, curr_arrivals, semaphores, sem_live, mutexes, mutex_live,
                 light_threads, oob_handle, mi, feedv, lightv, obs, now>>

\* while (!all_cars_handled()) sleep(1)
main_sleep ==
  /\ mpc = "sleep"
  /\ mpc' = "scan"
  /\ mi' = 0
  /\ UNCHANGED <<env, shared, light_threads, oob_handle, feedv, lightv, obs, now>>

\* all_cars_handled() returned true: leave the while loop
main_handled ==
  /\ mpc = "ret_true"
  /\ mpc' = "cancel"
  /\ mi' = 0
  /\ UNCHANGED <<env, shared, light_threads, oob_handle, feedv, lightv, obs, now>>

\* pthread_cancel(light_threads[i])
main_cancel ==
  /\ mpc = "cancel"
  /\ mi < NumLights
  /\ LET h == IF mi < NumHandleSlots THEN light_threads[mi] ELSE oob_handle IN
       cancel_req' = IF h \in LightIdx THEN cancel_req \cup {h} ELSE cancel_req
  /\ mi' = mi + 1
  /\ mpc' = IF mi + 1 < NumLights THEN "cancel" ELSE "sem_destroy"
  /\ UNCHANGED <<env, shared, light_threads, oob_handle, feedv, pc, mr,
                 cars_passed, obs, now>>

\* sem_destroy(&semaphores[i][j]) for all i, j
main_sem_destroy ==
  /\ mpc = "sem_destroy"
  /\ sem_live' = {}
  /\ mpc' = "mutex_destroy"
  /\ UNCHANGED <<env, curr_arrivals, semaphores, mutexes, mutex_live, mutex_lock,
                 light_threads, oob_handle, mi, feedv, lightv, obs, now>>

\* for (i = 0; i < 8; ++i) pthread_mutex_destroy(&mutexes[i])
main_mutex_destroy ==
  /\ mpc = "mutex_destroy"
  /\ mutex_live' = mutex_live \ (1 .. NumMutexInit)
  /\ mpc' = "return"
  /\ UNCHANGED <<env, curr_arrivals, semaphores, sem_live, mutexes, mutex_lock,
                 light_threads, oob_handle, mi, feedv, lightv, obs, now>>

\* main returns: the process exits and every thread ends with it
main_return ==
  /\ mpc = "return"
  /\ mpc' = "exited"
  /\ UNCHANGED <<env, shared, light_threads, oob_handle, mi, feedv, lightv, obs, now>>

(***************************************************************************)
(* supply_arrivals                                                         *)
(***************************************************************************)
\* sleep(arrival.time - t); t = arrival.time;
\* curr_arrivals[side][direction][num_curr_arrivals[side][direction]] = arrival;
\* num_curr_arrivals[side][direction] += 1
supply_arrivals_store ==
  /\ mpc # "exited"
  /\ fpc = "store"
  /\ fi < Len(dataset)
  /\ LET arrival == dataset[fi + 1]
         k == KeyOf(arrival) IN
       /\ curr_arrivals' =
            [curr_arrivals EXCEPT ![k] = StoreAt(@, num_curr_arrivals[k], arrival)]
       /\ num_curr_arrivals' = [num_curr_arrivals EXCEPT ![k] = @ + 1]
  /\ fpc' = "post"
  /\ UNCHANGED <<env, semaphores, sem_live, mutexes, mutex_live, mutex_lock,
                 mainv, fi, lightv, obs, now>>

\* sem_post(&semaphores[arrival.side][arrival.direction]); after the last
\* arrival the loop ends and the thread returns
supply_arrivals_post ==
  /\ mpc # "exited"
  /\ fpc = "post"
  /\ semaphores' = [semaphores EXCEPT ![KeyOf(dataset[fi + 1])] = @ + 1]
  /\ fi' = fi + 1
  /\ fpc' = IF fi + 1 < Len(dataset) THEN "store" ELSE "done"
  /\ UNCHANGED <<env, curr_arrivals, sem_live, mutexes, mutex_live, mutex_lock,
                 mainv, num_curr_arrivals, lightv, obs, now>>

(***************************************************************************)
(* manage_light, one thread per light_index l.  Every access to mutexes    *)
(* in the program (lines 147-150, 213-216, 243-258, 288-303) is made by a  *)
(* thread that holds mutex_lock, so each of these groups of lines is one   *)
(* step; steps that touch only locals are joined to the step before them.  *)
(***************************************************************************)
\* sem_wait and sleep are cancellation points: a thread with a pending
\* pthread_cancel ends there
BlockingPoint(l) == pc[l] \in {"sem_wait", "sleep"}
Cancelled(l) == pc[l] = "dead" \/ (l \in cancel_req /\ BlockingPoint(l))

\* the thread exists, has not been cancelled, and the process has not exited
Running(l) == mpc # "exited" /\ pc[l] # "unborn" /\ ~Cancelled(l)

\* positions whose next statement is an fprintf, which may be a
\* cancellation point
StdioPoint(l) == pc[l] \in {"lock", "try", "green", "unlock_green", "release"}

\* all_unlocked of lines 224-240
all_unlocked(r) == \A k \in 1..4 : r[k] = Locked0 \/ r[k] = NotRelevant

\* m1r..m4r of lines 213-216 and the mutexes after them: the four trylocks
\* in order, each seeing the locks the earlier ones took
RECURSIVE TryAll(_, _, _, _)
TryAll(l, k, mx, r) ==
  IF k > 4 THEN [mx |-> mx, r |-> r]
  ELSE LET m == Light(l).m[k]
           res == IF m = 0 THEN NotRelevant ELSE TryLockResult(mx, m) IN
         TryAll(l, k + 1,
                IF m # 0 /\ res = Locked0 THEN [mx EXCEPT ![m] = l] ELSE mx,
                [r EXCEPT ![k] = res])

\* an undo that forgets every slot but m1
UndoAll_FirstOnly(l, mx, r) ==
  [s \in 1..NumMutexes |->
     IF Light(l).m[1] = s /\ r[1] = Locked0 THEN Free ELSE mx[s]]

\* lines 243-258: unlock the mutexes this attempt locked
UndoAll(l, mx, r) ==
  [s \in 1..NumMutexes |->
     IF \E k \in 1..4 : Light(l).m[k] = s /\ r[k] = Locked0 THEN Free ELSE mx[s]]

\* a release that unlocks nothing
ReleaseAll_None(l, mx) == mx

\* lines 288-303: unlock every mutex of the row
ReleaseAll(l, mx) ==
  [s \in 1..NumMutexes |-> IF s \in Path(l) THEN Free ELSE mx[s]]

NoResults == <<NotRelevant, NotRelevant, NotRelevant, NotRelevant>>

\* a sem_wait that returns without taking the count down
manage_light_sem_wait_keep(l) ==
  /\ Running(l)
  /\ pc[l] = "sem_wait"
  /\ semaphores[Lane(l)] > 0
  /\ mr' = [mr EXCEPT ![l] = NoResults]
  /\ pc' = [pc EXCEPT ![l] = "lock"]
  /\ UNCHANGED <<env, shared, mainv, feedv, cars_passed, cancel_req, obs, now>>

\* sem_wait(&semaphores[side][direction]); m1r..m4r of this round of the loop
\* are not set yet
manage_light_sem_wait(l) ==
  /\ Running(l)
  /\ pc[l] = "sem_wait"
  /\ semaphores[Lane(l)] > 0
  /\ semaphores' = [semaphores EXCEPT ![Lane(l)] = @ - 1]
  /\ mr' = [mr EXCEPT ![l] = NoResults]
  /\ pc' = [pc EXCEPT ![l] = "lock"]
  /\ UNCHANGED <<env, curr_arrivals, sem_live, mutexes, mutex_live, mutex_lock,
                 mainv, feedv, cars_passed, cancel_req, obs, now>>

\* a controller that goes on to its trylocks without taking mutex_lock
manage_light_lock_skip(l) ==
  /\ Running(l)
  /\ pc[l] = "lock"
  /\ pc' = [pc EXCEPT ![l] = "try"]
  /\ UNCHANGED <<env, shared, mainv, feedv, mr, cars_passed, cancel_req, obs, now>>

\* pthread_mutex_lock(&mutex_lock), line 206
manage_light_lock(l) ==
  /\ Running(l)
  /\ pc[l] = "lock"
  /\ mutex_lock = Free
  /\ mutex_lock' = l
  /\ pc' = [pc EXCEPT ![l] = "try"]
  /\ UNCHANGED <<env, curr_arrivals, semaphores, sem_live, mutexes, mutex_live,
                 mainv, feedv, mr, cars_passed, cancel_req, obs, now>>

\* lines 213-241: the four trylocks, then all_unlocked picks the branch
manage_light_trylock(l) ==
  /\ Running(l)
  /\ pc[l] = "try"
  /\ LET t == TryAll(l, 1, mutexes, NoResults) IN
       /\ mutexes' = t.mx
       /\ mr' = [mr EXCEPT ![l] = t.r]
       /\ pc' = [pc EXCEPT ![l] = IF all_unlocked(t.r) THEN "green" ELSE "undo"]
  /\ UNCHANGED <<env, curr_arrivals, semaphores, sem_live, mutex_live, mutex_lock,
                 mainv, feedv, cars_passed, cancel_req, obs, now>>

\* lines 243-258
manage_light_undo(l) ==
  /\ Running(l)
  /\ pc[l] = "undo"
  /\ mutexes' = UndoAll(l, mutexes, mr[l])
  /\ pc' = [pc EXCEPT ![l] = "repost"]
  /\ UNCHANGED <<env, curr_arrivals, semaphores, sem_live, mutex_live, mutex_lock,
                 mainv, feedv, mr, cars_passed, cancel_req, obs, now>>

\* a retry that also advances the cursor
manage_light_repost_advance(l) ==
  /\ Running(l)
  /\ pc[l] = "repost"
  /\ semaphores' = [semaphores EXCEPT ![Lane(l)] = @ + 1]
  /\ cars_passed' = [cars_passed EXCEPT ![l] = @ + 1]
  /\ pc' = [pc EXCEPT ![l] = "unlock"]
  /\ UNCHANGED <<env, curr_arrivals, sem_live, mutexes, mutex_live, mutex_lock,
                 mainv, feedv, mr, cancel_req, obs, now>>

\* sem_post(&semaphores[side][direction]), line 260
manage_light_repost(l) ==
  /\ Running(l)
  /\ pc[l] = "repost"
  /\ semaphores' = [semaphores EXCEPT ![Lane(l)] = @ + 1]
  /\ pc' = [pc EXCEPT ![l] = "unlock"]
  /\ UNCHANGED <<env, curr_arrivals, sem_live, mutexes, mutex_live, mutex_lock,
                 mainv, feedv, mr, cars_passed, cancel_req, obs, now>>

\* print_traffic_light_change(side, direction, true, get_time_passed(),
\*   curr_arrivals[side][direction][cars_passed].id)
manage_light_green(l) ==
  /\ Running(l)
  /\ pc[l] = "green"
  /\ obs' = Append(obs, print_traffic_light_change(Light(l).side, Light(l).direction,
                     TRUE, now, ReadAt(curr_arrivals[Lane(l)], cars_passed[l]).id))
  /\ pc' = [pc EXCEPT ![l] = "unlock_green"]
  /\ UNCHANGED <<env, shared, mainv, feedv, mr, cars_passed, cancel_req, now>>

\* a crossing that keeps mutex_lock
manage_light_unlock_green_keep(l) ==
  /\ Running(l)
  /\ pc[l] = "unlock_green"
  /\ pc' = [pc EXCEPT ![l] = "sleep"]
  /\ UNCHANGED <<env, shared, mainv, feedv, mr, cars_passed, cancel_req, obs, now>>

\* pthread_mutex_unlock(&mutex_lock), line 270
manage_light_unlock_green(l) ==
  /\ Running(l)
  /\ pc[l] = "unlock_green"
  /\ mutex_lock' = Free
  /\ pc' = [pc EXCEPT ![l] = "sleep"]
  /\ UNCHANGED <<env, curr_arrivals, semaphores, sem_live, mutexes, mutex_live,
                 mainv, feedv, mr, cars_passed, cancel_req, obs, now>>

\* sleep(CROSS_TIME) ends;
\* print_traffic_light_change(side, direction, false, get_time_passed(), 0)
manage_light_red(l) ==
  /\ Running(l)
  /\ pc[l] = "sleep"
  /\ obs' = Append(obs, print_traffic_light_change(Light(l).side, Light(l).direction,
                     FALSE, now, 0))
  /\ pc' = [pc EXCEPT ![l] = "relock"]
  /\ UNCHANGED <<env, shared, mainv, feedv, mr, cars_passed, cancel_req, now>>

\* pthread_mutex_lock(&mutex_lock), line 283
manage_light_relock(l) ==
  /\ Running(l)
  /\ pc[l] = "relock"
  /\ mutex_lock = Free
  /\ mutex_lock' = l
  /\ pc' = [pc EXCEPT ![l] = "release"]
  /\ UNCHANGED <<env, curr_arrivals, semaphores, sem_live, mutexes, mutex_live,
                 mainv, feedv, mr, cars_passed, cancel_req, obs, now>>

\* a release that leaves the cursor where it was
manage_light_release_same_car(l) ==
  /\ Running(l)
  /\ pc[l] = "release"
  /\ mutexes' = ReleaseAll(l, mutexes)
  /\ pc' = [pc EXCEPT ![l] = "unlock"]
  /\ UNCHANGED <<env, curr_arrivals, semaphores, sem_live, mutex_live, mutex_lock,
                 mainv, feedv, mr, cars_passed, cancel_req, obs, now>>

\* lines 288-308: unlock the path mutexes; cars_passed += 1
manage_light_release(l) ==
  /\ Running(l)
  /\ pc[l] = "release"
  /\ mutexes' = ReleaseAll(l, mutexes)
  /\ cars_passed' = [cars_passed EXCEPT ![l] = @ + 1]
  /\ pc' = [pc EXCEPT ![l] = "unlock"]
  /\ UNCHANGED <<env, curr_arrivals, semaphores, sem_live, mutex_live, mutex_lock,
                 mainv, feedv, mr, cancel_req, obs, now>>

\* pthread_mutex_unlock(&mutex_lock), line 312; sleep(0.1) is sleep(0)
manage_light_unlock(l) ==
  /\ Running(l)
  /\ pc[l] = "unlock"
  /\ mutex_lock' = Free
  /\ pc' = [pc EXCEPT ![l] = "sem_wait"]
  /\ UNCHANGED <<env, curr_arrivals, semaphores, sem_live, mutexes, mutex_live,
                 mainv, feedv, mr, cars_passed, cancel_req, obs, now>>

\* a pending pthread_cancel may be acted on inside fprintf: the thread ends
\* where it is, with whatever it holds
manage_light_cancelled(l) ==
  /\ Running(l)
  /\ l \in cancel_req
  /\ StdioPoint(l)
  /\ pc' = [pc EXCEPT ![l] = "dead"]
  /\ UNCHANGED <<env, shared, mainv, feedv, mr, cars_passed, cancel_req, obs, now>>

(***************************************************************************)
(* The program.                                                            *)
(***************************************************************************)
Next ==
  \/ main_sem_init
  \/ main_mutex_init
  \/ main_create_light
  \/ main_create_feed
  \/ main_join
  \/ all_cars_handled_sem
  \/ all_cars_handled_lock
  \/ all_cars_handled_probe
  \/ all_cars_handled_unlock
  \/ main_sleep
  \/ main_handled
  \/ main_cancel
  \/ main_sem_destroy
  \/ main_mutex_destroy
  \/ main_return
  \/ supply_arrivals_store
  \/ supply_arrivals_post
  \/ \E l \in LightIdx : manage_light_sem_wait(l)
  \/ \E l \in LightIdx : manage_light_lock(l)
  \/ \E l \in LightIdx : manage_light_trylock(l)
  \/ \E l \in LightIdx : manage_light_undo(l)
  \/ \E l \in LightIdx : manage_light_repost(l)
  \/ \E l \in LightIdx : manage_light_green(l)
  \/ \E l \in LightIdx : manage_light_unlock_green(l)
  \/ \E l \in LightIdx : manage_light_red(l)
  \/ \E l \in LightIdx : manage_light_relock(l)
  \/ \E l \in LightIdx : manage_light_release(l)
  \/ \E l \in LightIdx : manage_light_unlock(l)
  \/ \E l \in LightIdx : manage_light_cancelled(l)

Spec == Init /\ [][Next]_vars
BuildSpec == InitAnyBuild /\ [][Next]_vars

\* the observations of one lane, in stream order
LaneObs(l) ==
  SelectSeq(obs, LAMBDA o : o.side = Light(l).side /\ o.direction = Light(l).direction)
IsGreen(o) == o.green
Greens(l) == SelectSeq(LaneObs(l), IsGreen)

(***************************************************************************)
(* The program with its clock.  get_time_passed() counts whole seconds;    *)
(* computing takes no time: a second passes (Tick) only when every thread  *)
(* is waiting, that is asleep with time left, blocked in sem_wait,         *)
(* pthread_join or pthread_mutex_lock, or going round the loop of          *)
(* manage_light for a path that is still held.  The length of main's       *)
(* sleep(1) is not tracked: main may call all_cars_handled again at any    *)
(* instant.                                                                *)
(***************************************************************************)
InitTimed ==
  /\ dataset \in Datasets \cup {input_arrivals}
  /\ zero_mutex_ok = TRUE
  /\ Statics

\* the time the last green line of lane l was printed with (line 265)
LastGreenTime(l) == LET g == Greens(l) IN g[Len(g)].time

\* a sleep that returns at once
SleepOver_AtOnce(l) == TRUE

\* sleep(CROSS_TIME) of line 275, called at the instant of line 265, is over
SleepOver(l) == now >= LastGreenTime(l) + CROSS_TIME

\* sleep(arrival.time - t) of line 86 is over: the sleeps of the feed add up
\* to arrival.time
ArrivalDue == fpc = "store" /\ fi < Len(dataset) /\ now >= dataset[fi + 1].time

\* every trylock of lines 213-216 would return 0
PathFree(l) == \A s \in Path(l) : TryLockResult(mutexes, s) = Locked0

FeedUrgent == mpc # "exited" /\ (fpc = "post" \/ ArrivalDue)
MainUrgent ==
  /\ mpc \notin {"sleep", "exited"}
  /\ ~(mpc = "join" /\ fpc # "done")
  /\ ~(mpc = "acquire" /\ mutex_lock # Free)
LightUrgent(l) ==
  /\ Running(l)
  /\ CASE pc[l] = "sem_wait" -> semaphores[Lane(l)] > 0 /\ PathFree(l)
       [] pc[l] = "sleep" -> SleepOver(l)
       [] pc[l] \in {"lock", "relock"} -> mutex_lock = Free
       [] OTHER -> TRUE
Urgent == FeedUrgent \/ MainUrgent \/ \E l \in LightIdx : LightUrgent(l)

\* one second passes
Tick ==
  /\ mpc # "exited"
  /\ ~Urgent
  /\ now < MaxTime
  /\ now' = now + 1
  /\ UNCHANGED <<env, shared, mainv, feedv, lightv, obs>>

\* lines 86-90 once the sleep of line 86 is over
supply_arrivals_sleep_store == ArrivalDue /\ supply_arrivals_store

\* lines 275-280 once the sleep of line 275 is over
manage_light_sleep_red(l) == pc[l] = "sleep" /\ SleepOver(l) /\ manage_light_red(l)

TimedNext ==
  \/ Tick
  \/ main_sem_init
  \/ main_mutex_init
  \/ main_create_light
  \/ main_create_feed
  \/ main_join
  \/ all_cars_handled_sem
  \/ all_cars_handled_lock
  \/ all_cars_handled_probe
  \/ all_cars_handled_unlock
  \/ main_sleep
  \/ main_handled
  \/ main_cancel
  \/ main_sem_destroy
  \/ main_mutex_destroy
  \/ main_return
  \/ supply_arrivals_sleep_store
  \/ supply_arrivals_post
  \/ \E l \in LightIdx : manage_light_sem_wait(l)
  \/ \E l \in LightIdx : manage_light_lock(l)
  \/ \E l \in LightIdx : manage_light_trylock(l)
  \/ \E l \in LightIdx : manage_light_undo(l)
  \/ \E l \in LightIdx : manage_light_repost(l)
  \/ \E l \in LightIdx : manage_light_green(l)
  \/ \E l \in LightIdx : manage_light_unlock_green(l)
  \/ \E l \in LightIdx : manage_light_sleep_red(l)
  \/ \E l \in LightIdx : manage_light_relock(l)
  \/ \E l \in LightIdx : manage_light_release(l)
  \/ \E l \in LightIdx : manage_light_unlock(l)
  \/ \E l \in LightIdx : manage_light_cancelled(l)

TimedSpec == InitTimed /\ [][TimedNext]_vars

(***************************************************************************)
(* Scheduling.  Every thread that can take a step eventually takes one;    *)
(* a thread that asks for mutex_lock again and again as it comes free      *)
(* eventually gets it.                                                     *)
(***************************************************************************)
FeedLights == {l \in LightIdx : Lane(l) \in FeedLanes}
MainStep ==
  \/ main_sem_init \/ main_mutex_init \/ main_create_light \/ main_create_feed
  \/ main_join \/ all_cars_handled_sem \/ all_cars_handled_probe
  \/ all_cars_handled_unlock \/ main_sleep \/ main_handled \/ main_cancel
  \/ main_sem_destroy \/ main_mutex_destroy \/ main_return
FeedStep == supply_arrivals_store \/ supply_arrivals_post
LightStep(l) ==
  \/ manage_light_sem_wait(l) \/ manage_light_trylock(l) \/ manage_light_undo(l)
  \/ manage_light_repost(l) \/ manage_light_green(l) \/ manage_light_unlock_green(l)
  \/ manage_light_red(l) \/ manage_light_release(l) \/ manage_light_unlock(l)
LightLock(l) == manage_light_lock(l) \/ manage_light_relock(l)
\* lanes that never get an arrival never leave sem_wait, so the conditions
\* are stated for the lanes of FeedLanes
Fairness ==
  /\ WF_vars(MainStep)
  /\ WF_vars(FeedStep)
  /\ SF_vars(all_cars_handled_lock)
  /\ \A l \in FeedLights : WF_vars(LightStep(l)) /\ SF_vars(LightLock(l))
FairSpec == Init /\ [][Next]_vars /\ Fairness

(***************************************************************************)
(* Vocabulary of the properties.                                           *)
(***************************************************************************)
\* between the green observation and the release of the segments
Crossing(l) == pc[l] \in {"unlock_green", "sleep", "relock", "release"}

\* segment s is one this controller has locked and not yet unlocked, by its
\* own position and trylock results
Holds(l, s) ==
  \E k \in 1..4 :
    /\ Light(l).m[k] = s
    /\ \/ pc[l] \in {"green", "unlock_green", "sleep", "relock", "release"}
       \/ pc[l] = "undo" /\ mr[l][k] = Locked0

\* the segment locks whose owner is controller l
Held(l) == {s \in 1..NumMutexes : mutexes[s] = l}

Overlap(l1, l2) == l1 # l2 /\ Path(l1) \cap Path(l2) # {}
OverlapPairs == {p \in LightIdx \X LightIdx : p[1] < p[2] /\ Overlap(p[1], p[2])}

\* arrival a has had its green observation and, after it, a red one of its lane
Served(a) ==
  \E i, j \in 1..Len(obs) :
    /\ i < j
    /\ obs[i].green /\ obs[i].car = a.id /\ KeyOf(obs[i]) = KeyOf(a)
    /\ ~obs[j].green /\ KeyOf(obs[j]) = KeyOf(a)

\* positions of the dataset whose arrival the feed has signalled to lane l
PublishedFor(l) == {i \in 1..fi : KeyOf(dataset[i]) = Lane(l)}
AllPopulated == \A i \in 1..Len(dataset) : KeyOf(dataset[i]) \in Populated

\* main is at or past its loop of pthread_cancel calls
Cancelling == mpc \in {"cancel", "sem_destroy", "mutex_destroy", "return", "exited"}

\* controller l has an arrival it was signalled for and has not finished
Pending(l) == Len(curr_arrivals[Lane(l)]) > cars_passed[l]

\* lines 144-164: the result all_cars_handled's loop over the mutexes ends
\* with, 0 when every trylock succeeded and otherwise the first other result
RECURSIVE ProbeFrom(_, _)
ProbeFrom(mx, s) ==
  IF s > NumMutexes THEN Locked0
  ELSE IF TryLockResult(mx, s) # Locked0 THEN TryLockResult(mx, s)
  ELSE ProbeFrom(mx, s + 1)
ProbeResult(mx) == ProbeFrom(mx, 1)

\* a result of pthread_mutex_trylock that is neither success nor EBUSY
IsError(r) == r \notin {Locked0, EBUSY, NotRelevant}

\* the arrivals of input_arrivals that are for lane k, in dataset order
DatasetFor(k) == SelectSeq(dataset, LAMBDA a : KeyOf(a) = k)

\* the pairs of lanes whose rows of lights share a segment
OverlapLanes ==
  {<<Lane(p[1]), Lane(p[2])>> : p \in OverlapPairs}
    \cup {<<Lane(p[2]), Lane(p[1])>> : p \in OverlapPairs}

\* controller l is at a call of print_traffic_light_change (line 265) or in
\* the sleep(CROSS_TIME) that the call of line 280 follows
CanObserve(l) == Running(l) /\ pc[l] \in {"green", "sleep"}

\* the row of lights that serves lane k
LightOf(k) == CHOOSE l \in LightIdx : Lane(l) = k

\* main is inside all_cars_handled between lines 142 and 166
InProbe == mpc \in {"probe", "unlock_true", "unlock_false"}

\* controller l has returned from sem_wait (line 201) and has not yet
\* reached line 260 or line 308
PastSemWait(l) ==
  pc[l] \in {"lock", "try", "undo", "repost", "green", "unlock_green", "sleep",
             "relock", "release"}

\* 1 when controller l has taken a signal (line 201) that it has neither
\* raised again (line 260) nor counted in cars_passed (line 308); a
\* controller that was cancelled inside an fprintf ended in that stretch
InFlight(l) == IF PastSemWait(l) \/ pc[l] = "dead" THEN 1 ELSE 0

(***************************************************************************)
(* C1.  No two lane controllers whose rows of lights share a segment are   *)
(* in Crossing at the same time, and no segment is held by two             *)
(* controllers at once.                                                    *)
(***************************************************************************)
C1_MutualExclusion ==
  \A p \in OverlapPairs :
    /\ ~(Crossing(p[1]) /\ Crossing(p[2]))
    /\ \A s \in Path(p[1]) \cap Path(p[2]) : ~(Holds(p[1], s) /\ Holds(p[2], s))

\* one lane crosses while a lane that shares a segment with it has just had
\* its attempt refused
C1_Witness ==
  \E l1, l2 \in LightIdx :
    /\ Overlap(l1, l2)
    /\ pc[l1] = "sleep"
    /\ pc[l2] = "undo"
    /\ \E k \in 1..4 : mr[l2][k] = EBUSY

(***************************************************************************)
(* C2.  No arrival is dropped: by the time main starts cancelling the      *)
(* lane controllers, every arrival of a populated lane has had its green   *)
(* observation and then a red observation of its lane.                     *)
(***************************************************************************)
C2_ServedBeforeCancel ==
  Cancelling =>
    \A i \in 1..Len(dataset) :
      KeyOf(dataset[i]) \in Populated => Served(dataset[i])

(***************************************************************************)
(* C3.  Whenever all_cars_handled returns true, every arrival of the       *)
(* dataset has had its green and its red observation.                      *)
(***************************************************************************)
C3_TrueOnlyWhenAllServed ==
  mpc = "ret_true" => \A i \in 1..Len(dataset) : Served(dataset[i])

(***************************************************************************)
(* C4.  When all_cars_handled returns true, no lane controller holds any   *)
(* of the nine segment locks.                                              *)
(***************************************************************************)
C4_TrueOnlyWhenNoSegmentHeld ==
  mpc = "ret_true" => \A s \in 1..NumMutexes : mutexes[s] = Free

(***************************************************************************)
(* C5.  Progress: whenever two lanes with overlapping paths both have an   *)
(* arrival pending, one of them eventually completes a crossing.           *)
(***************************************************************************)
C5_Progress ==
  \A l1, l2 \in FeedLights :
    \A n \in 0 .. MaxArrivals :
      (l1 < l2 /\ Overlap(l1, l2)) =>
        ( (Pending(l1) /\ Pending(l2) /\ cars_passed[l1] + cars_passed[l2] = n)
            ~> (cars_passed[l1] + cars_passed[l2] > n) )

(***************************************************************************)
(* C6.  All-or-nothing: a controller that does not hold mutex_lock holds   *)
(* every segment of its row or none, and none when it is waiting for an    *)
(* arrival or for mutex_lock after a refused attempt.                      *)
(***************************************************************************)
C6_AllOrNothing ==
  \A l \in LightIdx :
    mutex_lock # l =>
      /\ Held(l) = {} \/ Held(l) = Path(l)
      /\ pc[l] \in {"sem_wait", "lock"} => Held(l) = {}

\* a controller is back at sem_wait, mutex_lock released, after an attempt
\* that locked one segment and was refused another
C6_Witness ==
  \E l \in LightIdx :
    /\ pc[l] = "sem_wait"
    /\ mutex_lock # l
    /\ \E k \in 1..4 : mr[l][k] = Locked0
    /\ \E k \in 1..4 : mr[l][k] = EBUSY

(***************************************************************************)
(* C7.  FIFO within a lane: the k-th green observation of a lane carries   *)
(* the id of the k-th arrival stored for the lane, and the cursor          *)
(* cars_passed counts only served arrivals.                                *)
(***************************************************************************)
C7_Fifo ==
  \A l \in LightIdx :
    LET g == Greens(l)
        stored == curr_arrivals[Lane(l)] IN
      /\ Len(g) <= Len(stored)
      /\ \A k \in 1..Len(g) : (k <= Len(stored)) => g[k].car = stored[k].id
      /\ cars_passed[l] <= Len(g)
      /\ Len(g) <= cars_passed[l] + 1

\* a lane has turned green twice, for its first and then its second arrival
C7_Witness ==
  \E l \in LightIdx :
    /\ Len(Greens(l)) = 2
    /\ Greens(l)[1].car = curr_arrivals[Lane(l)][1].id
    /\ Greens(l)[2].car = curr_arrivals[Lane(l)][2].id
    /\ Greens(l)[1].car # Greens(l)[2].car

(***************************************************************************)
(* C8.  No arrival is served twice: no id appears in two green             *)
(* observations, a lane has no more green observations than arrivals       *)
(* published for it, and the observations of a lane alternate green, red,  *)
(* green, ...                                                              *)
(***************************************************************************)
C8_ServedOnce ==
  /\ \A i, j \in 1..Len(obs) :
       obs[i].green /\ obs[j].green /\ obs[i].car = obs[j].car => i = j
  /\ \A l \in LightIdx :
       LET o == LaneObs(l) IN
         /\ Len(SelectSeq(o, IsGreen)) <= Cardinality(PublishedFor(l))
         /\ \A k \in 1..Len(o) : o[k].green = (k % 2 = 1)

\* a lane has served both of its two arrivals
C8_Witness ==
  \E l \in LightIdx :
    /\ Len(curr_arrivals[Lane(l)]) = 2
    /\ Len(LaneObs(l)) = 4
    /\ cars_passed[l] = 2

(***************************************************************************)
(* C9.  mutex_lock is not held by a controller during its crossing delay   *)
(* nor while it waits to take it again after the delay.                    *)
(***************************************************************************)
C9_ArbitrationNotHeldInCrossing ==
  \A l \in LightIdx : pc[l] \in {"sleep", "relock"} => mutex_lock # l

\* two lanes with disjoint paths are in their crossing delay together
C9_Witness ==
  \E l1, l2 \in LightIdx :
    /\ l1 # l2
    /\ pc[l1] = "sleep"
    /\ pc[l2] = "sleep"
    /\ Path(l1) \cap Path(l2) = {}

C11_ErrorIsFatal ==
  /\ \A l \in LightIdx :
       pc[l] = "repost" => \A k \in 1..4 : ~IsError(mr[l][k])
  /\ mpc = "unlock_false" => ~IsError(ProbeResult(mutexes))

(***************************************************************************)
(* C12.  Determinism of the observation stream, as claimed: runs of the    *)
(* same dataset and lights table agree on the relative order of all        *)
(* observations under every interleaving.  Two runs can be compared in a   *)
(* model of one run through a consequence: no reachable state has two      *)
(* controllers that can each write the next observation, since the runs    *)
(* that continue from it with the one and with the other differ.           *)
(***************************************************************************)
C12_OneNextObservation ==
  \A l1, l2 \in LightIdx : l1 # l2 => ~(CanObserve(l1) /\ CanObserve(l2))

(***************************************************************************)
(* C12, amended.  What every run of a dataset has in common: the           *)
(* observations of one lane are green for the lane's first arrival in the  *)
(* dataset, red, green for its second, red, ... as far as the run gets;    *)
(* and of two lanes that share a segment, the green of one is separated    *)
(* from an earlier green of the other by that other lane's red.  The       *)
(* order of observations of lanes that share no segment is not fixed.      *)
(***************************************************************************)
C12_LaneStreamFixed ==
  /\ \A n \in 1..Len(obs) :
       LET k == KeyOf(obs[n])
           before == Cardinality({m \in 1 .. (n - 1) : KeyOf(obs[m]) = k})
           d == DatasetFor(k) IN
         IF before % 2 = 0
         THEN /\ obs[n].green
              /\ before \div 2 < Len(d)
              /\ obs[n].car = d[before \div 2 + 1].id
         ELSE ~obs[n].green
  /\ \A i, j \in 1..Len(obs) :
       ( /\ i < j
         /\ obs[i].green /\ obs[j].green
         /\ <<KeyOf(obs[i]), KeyOf(obs[j])>> \in OverlapLanes )
       => \E m \in (i + 1) .. (j - 1) :
            ~obs[m].green /\ KeyOf(obs[m]) = KeyOf(obs[i])

\* a complete run of two arrivals on lanes that share no segment in which
\* the later arrival got its green first and both were crossing together
C12_Witness ==
  /\ Len(dataset) = 2
  /\ Len(obs) = 4
  /\ obs[1].green /\ obs[1].car = dataset[2].id
  /\ obs[2].green /\ obs[2].car = dataset[1].id
  /\ ~obs[3].green /\ ~obs[4].green
  /\ mpc = "exited"

C14_CancelledWhileWaiting ==
  mpc = "cancel" =>
    \A l \in LightIdx :
      /\ pc[l] = "sem_wait"
      /\ semaphores[Lane(l)] = 0
      /\ Held(l) = {}
      /\ mutex_lock # l

(***************************************************************************)
(* C15.  Every trylock and unlock of a segment mutex, by a controller or   *)
(* by all_cars_handled, is made by a thread that holds mutex_lock: a       *)
(* thread at such a statement is the holder, and a segment mutex changes   *)
(* owner only between free and the holder of mutex_lock, which keeps       *)
(* mutex_lock over the step.  all_cars_handled changes no segment mutex,   *)
(* and main does not hold mutex_lock outside it.                           *)
(***************************************************************************)
C15_UnderArbitration ==
  /\ [](\A l \in LightIdx : pc[l] \in {"try", "undo", "release"} => mutex_lock = l)
  /\ [](InProbe <=> mutex_lock = MainTid)
  /\ [][ \A s \in 1..NumMutexes :
           mutexes'[s] # mutexes[s] =>
             /\ mutex_lock \in LightIdx
             /\ mutex_lock' = mutex_lock
             /\ {mutexes[s], mutexes'[s]} = {Free, mutex_lock} ]_vars
  /\ [][ InProbe => mutexes' = mutexes ]_vars

\* all_cars_handled has probed the mutexes while a controller is crossing
\* and is about to unlock mutex_lock and return false
C15_Witness ==
  /\ mpc = "unlock_false"
  /\ mutex_lock = MainTid
  /\ \E l \in LightIdx : pc[l] = "sleep" /\ Held(l) = Path(l)

(***************************************************************************)
(* C16.  A controller reads only slots of curr_arrivals that the feed has  *)
(* written: once it has returned from sem_wait, at least cars_passed + 1   *)
(* arrivals are stored for its lane, so the slot it reads at lines 203,    *)
(* 265 and 277 is written.  A written slot is never written again, and a   *)
(* lane has at least as many stored arrivals as signals raised for it.     *)
(***************************************************************************)
C16_ReadsWrittenSlots ==
  /\ [](\A l \in LightIdx :
          /\ PastSemWait(l) => Len(curr_arrivals[Lane(l)]) >= cars_passed[l] + 1
          /\ Len(curr_arrivals[Lane(l)]) >= Cardinality(PublishedFor(l)))
  /\ [][ \A k \in LaneKeys :
           /\ Len(curr_arrivals'[k]) >= Len(curr_arrivals[k])
           /\ \A j \in 1..Len(curr_arrivals[k]) :
                curr_arrivals'[k][j] = curr_arrivals[k][j] ]_vars

\* a controller is printing green for the second arrival of its lane, read
\* from the second slot
C16_Witness ==
  \E l \in LightIdx :
    /\ pc[l] = "green"
    /\ cars_passed[l] = 1
    /\ Len(curr_arrivals[Lane(l)]) = 2
    /\ ReadAt(curr_arrivals[Lane(l)], cars_passed[l]) = dataset[2]

(***************************************************************************)
(* C17.  All nine segment mutexes are initialised before any lane          *)
(* controller is started, and as long as a controller runs the semaphore   *)
(* of its lane and the mutexes of its path are initialised and not         *)
(* destroyed; so segment 9 is initialised when it is first tried.          *)
(***************************************************************************)
C17_LocksLive ==
  /\ (\E l \in LightIdx : pc[l] # "unborn") => mutex_live = 1 .. NumMutexes
  /\ \A l \in LightIdx :
       Running(l) => Lane(l) \in sem_live /\ Path(l) \subseteq mutex_live

(***************************************************************************)
(* C18.  main starts one controller per row of lights and keeps each       *)
(* handle in a slot of light_threads of its own: nothing is written past   *)
(* the end of the table, once all are started every controller's handle    *)
(* is in the table, and after the pthread_cancel loop exactly the nine     *)
(* controllers have been cancelled.                                        *)
(***************************************************************************)
C18_HandlesInTable ==
  /\ oob_handle = Garbage
  /\ mpc \notin {"sem_init", "mutex_init", "create"} =>
       /\ \A l \in LightIdx : pc[l] # "unborn"
       /\ \A l \in LightIdx : \E i \in DOMAIN light_threads : light_threads[i] = l
  /\ mpc \in {"sem_destroy", "mutex_destroy", "return", "exited"} =>
       cancel_req = LightIdx

(***************************************************************************)
(* C19.  Signal conservation: for every lane with a controller the number  *)
(* of arrivals signalled to the lane equals cars_passed plus the count of  *)
(* the lane's semaphore plus one while the controller has a signal taken   *)
(* and neither raised again nor counted; no count is negative.             *)
(***************************************************************************)
C19_SignalConservation ==
  /\ \A k \in LaneKeys : semaphores[k] >= 0
  /\ \A l \in LightIdx :
       Cardinality(PublishedFor(l)) =
         cars_passed[l] + semaphores[Lane(l)] + InFlight(l)

\* a controller has raised its signal again after an attempt that found a
\* segment held: the count is back at one and cars_passed has not moved
C19_Witness ==
  \E l \in LightIdx :
    /\ pc[l] = "unlock"
    /\ \E k \in 1..4 : mr[l][k] = EBUSY
    /\ Cardinality(PublishedFor(l)) = 1
    /\ semaphores[Lane(l)] = 1
    /\ cars_passed[l] = 0

(***************************************************************************)
(* C20.  An arrival for a lane that has no row in lights is stored and     *)
(* signalled by the feed like any other and is never served: from its      *)
(* sem_post on the lane's count stays above zero and the lane has no       *)
(* observation, all_cars_handled never gets past its scan of the           *)
(* semaphores, so it never returns true, and main never leaves its loop.   *)
(***************************************************************************)
C20_UnpopulatedLane ==
  \A i \in 1..Len(dataset) :
    LET k == KeyOf(dataset[i]) IN
      k \notin Populated =>
        /\ mpc \in {"sem_init", "mutex_init", "create", "create_feed", "join",
                     "scan", "sleep"}
        /\ fi >= i =>
             /\ semaphores[k] > 0
             /\ \E j \in 1..Len(curr_arrivals[k]) : curr_arrivals[k][j] = dataset[i]
             /\ \A n \in 1..Len(obs) : KeyOf(obs[n]) # k

\* the feed has finished a dataset with an arrival for a lane without a
\* controller, the other arrival has crossed, and main is asleep in its
\* loop after all_cars_handled returned false on that lane's count
C20_Witness ==
  /\ fpc = "done"
  /\ mpc = "sleep"
  /\ \E i \in 1..Len(dataset) :
       KeyOf(dataset[i]) \notin Populated /\ semaphores[KeyOf(dataset[i])] = 1
  /\ \E l \in LightIdx : cars_passed[l] = 1 /\ pc[l] = "sem_wait"

====
